---------------------------- MODULE Spec2Model ----------------------------
(***************************************************************************)
(* A model of the two command line scripts of the repository:              *)
(*                                                                         *)
(*   src/__main__.py       track-split: detect the ends of silences with   *)
(*                         ffmpeg, print the expected tracks, and with -x  *)
(*                         cut the tracks with sox                         *)
(*   src/trim_silence.py   trim: detect leading and trailing silence with  *)
(*                         ffmpeg, print the expected duration, and with   *)
(*                         -x trim (and with -n normalize) with sox        *)
(*                                                                         *)
(* One run of one script is one behaviour.  The variable mode says which   *)
(* script runs, args holds the parsed command line, pc the position in    *)
(* the script.  Every blocking subprocess call and every loop iteration   *)
(* is one step.                                                            *)
(*                                                                         *)
(* Times are fixed-point numbers in tenths of a second (0.4 s is 4), so    *)
(* that the arithmetic of the scripts (differences, offsets, min, max,     *)
(* rounding at .5) is exact.  Binary floating point error is not modelled. *)
(* Whole seconds (the argument of format_seconds) are plain integers.      *)
(***************************************************************************)
EXTENDS Integers, Sequences, FiniteSets

VARIABLES
    mode,            \* "split" (src/__main__.py) or "trim" (src/trim_silence.py)
    args,            \* the Namespace returned by init_argument_parser
    pc,              \* position in the script
    status,          \* exit status of the process, -1 while it runs
    silence_ends,    \* detected silence_end timestamps
    silence_starts,  \* detected silence_start timestamps (trim)
    duration,        \* detected media duration (trim), 0 if undetected
    start,           \* trim: start of the range
    end,             \* trim: end of the range
    old_silence_end, \* split: loop variable of both loops
    number,          \* split: loop index (enumerate(..., start=1))
    segments,        \* split: the (old_silence_end, silence_end) pair of each
                     \*        iteration of print_expected_tracks
    stdout,          \* the lines printed so far
    calls,           \* the subprocesses spawned so far, in order
    files            \* the output files that exist

vars == <<mode, args, pc, status, silence_ends, silence_starts, duration,
          start, end, old_silence_end, number, segments, stdout, calls, files>>

-----------------------------------------------------------------------------
(* Bounds and input domains *)

\* The largest number of silence events of one kind the decoder reports.
MaxSilences == 3

\* OFFSET_DEFAULT = 0.4, in tenths of a second.
OFFSET_DEFAULT == 4

\* The timestamps the decoder may report, in tenths of a second.
Timestamps == {0, 3, 20, 50, 100}

\* The media durations the decoder may report (0: no Duration line).
Durations == {0, 50, 120}

\* The values of --offset: any float is accepted.
Offsets == {-OFFSET_DEFAULT, 0, OFFSET_DEFAULT, 30}

\* The values of noise / --threshold in dB, and of the split duration argument.
Noises == {-50, 0}
SilenceDurations == {0, 15}

\* The name of the input file without its suffix.
Stem == "rec"

Max(a, b) == IF a >= b THEN a ELSE b
Min(a, b) == IF a <= b THEN a ELSE b

\* Strictly increasing sequences over Timestamps of at most MaxSilences
\* elements: the decoder reports events in chronological order.
IsIncreasing(s) == \A i \in 1..(Len(s) - 1) : s[i] < s[i + 1]
EventLists ==
    UNION { { s \in [1..n -> Timestamps] : IsIncreasing(s) } : n \in 0..MaxSilences }

-----------------------------------------------------------------------------
(* Pure functions *)

\* int(x) of Python: truncation toward zero, of the quotient a / b (b > 0).
TruncDiv(a, b) == IF a >= 0 THEN a \div b ELSE -((-a) \div b)

\* round_away_from_zero(f) = int(f + 0.5 * copysign(1, f)); f in tenths of a
\* second, the result in whole seconds.  copysign(1, 0.0) is 1.
round_away_from_zero(f) ==
    TruncDiv(IF f >= 0 THEN f + 5 ELSE f - 5, 10)

Digit == <<"0", "1", "2", "3", "4", "5", "6", "7", "8", "9">>

RECURSIVE DecStr(_)
DecStr(n) == IF n < 10 THEN Digit[n + 1] ELSE DecStr(n \div 10) \o Digit[(n % 10) + 1]

\* '%.02d' % n : at least two digits, a sign before them.
Pad2(n) ==
    IF n < 0 THEN "-" \o (IF -n < 10 THEN "0" \o DecStr(-n) ELSE DecStr(-n))
    ELSE IF n < 10 THEN "0" \o DecStr(n) ELSE DecStr(n)

\* format_seconds of __main__.py: minutes = seconds / 60 is a float that %d
\* truncates; seconds % 60 is Python's modulo (never negative).
format_seconds(seconds) ==
    Pad2(TruncDiv(seconds, 60)) \o ":" \o Pad2(seconds % 60)

\* format_seconds of trim_silence.py: minutes = seconds // 60 (floor), and
\* the format {:02} pads to width two.
format_seconds_trim(seconds) ==
    Pad2(seconds \div 60) \o ":" \o Pad2(seconds % 60)

\* '%.02d.wav' % number
TrackName(n) == Pad2(n) \o ".wav"


\* str(n) for an integer n.
IntStr(n) == IF n < 0 THEN "-" \o DecStr(-n) ELSE DecStr(n)

-----------------------------------------------------------------------------
(* Records *)

\* One printed line.
Line(kind, text) == [kind |-> kind, text |-> text]

\* One spawned subprocess: the program, what it was asked to do, the file it
\* writes, the position after "trim", the bound after the position ("abs":
\* an absolute end "=<value>", "len": a length, "none": no bound), and its
\* exit status.
Call(prog, op, out, pos, bound, value, rc) ==
    [prog |-> prog, op |-> op, out |-> out, pos |-> pos,
     bound |-> bound, value |-> value, rc |-> rc]

\* The exit statuses of a subprocess that could be spawned.
ExitCodes == {0, 1}

SoxCalls == SelectSeq(calls, LAMBDA c : c.prog = "sox")
FfmpegCalls == SelectSeq(calls, LAMBDA c : c.prog = "ffmpeg")

\* A subprocess that ends with status 0 has written its output file; one
\* that fails has not.
FilesAfter(fs, out, rc) == IF rc = 0 THEN fs \cup {out} ELSE fs

-----------------------------------------------------------------------------
(* src/__main__.py *)

\* Mutant of SplitArgsError: the check of the duration argument is left out.
SplitArgsError_NoDurationCheck(a) ==
    IF ~a.file_exists THEN "file_missing"
    ELSE IF ~(a.noise < 0) THEN "bad_noise"
    ELSE "none"

\* The checks of the arguments, in program order: the first that fails
\* decides the message.
SplitArgsError(a) ==
    IF ~a.file_exists THEN "file_missing"
    ELSE IF ~(a.noise < 0) THEN "bad_noise"
    ELSE IF ~(a.duration > 0) THEN "bad_duration"
    ELSE "none"

\* Mutant of ShouldExecute: the editor runs whether or not --execute is given.
ShouldExecute_Always(a) == TRUE

\* if args.execute:
ShouldExecute(a) == a.execute

\* Mutant of SoxTrackArgs: the last track gets an end bound too.
SoxTrackArgs_AlwaysBounded(track, old_end, silence_end, n, number_of_tracks, rc) ==
    Call("sox", "trim", track, old_end, "abs", silence_end, rc)

\* The arguments of one sox call of write_tracks; silence_end is already
\* shortened by the offset.
SoxTrackArgs(track, old_end, silence_end, n, number_of_tracks, rc) ==
    IF n < number_of_tracks
    THEN Call("sox", "trim", track, old_end, "abs", silence_end, rc)
    ELSE Call("sox", "trim", track, old_end, "none", 0, rc)

\* One line of print_expected_tracks.
TrackLine(n, silence_end, old_end) ==
    Line("track",
         TrackName(n) \o " \t " \o
         format_seconds(round_away_from_zero(silence_end - old_end)))

\* Mutant of NextOldSilenceEnd: old_silence_end is not updated.
NextOldSilenceEnd_Stale(silence_end, old_end) == old_end

\* The value of old_silence_end for the next iteration of print_expected_tracks.
NextOldSilenceEnd(silence_end, old_end) == silence_end

SplitValidate ==
    /\ mode = "split" /\ pc = "start"
    /\ LET err == SplitArgsError(args) IN
       IF err /= "none"
       THEN /\ stdout' = Append(stdout, Line(err, ""))
            /\ pc' = "exit"
            /\ status' = 1
       ELSE /\ pc' = "detect"
            /\ UNCHANGED <<stdout, status>>
    /\ UNCHANGED <<mode, args, silence_ends, silence_starts, duration, start, end,
                   old_silence_end, number, segments, calls, files>>

\* fetch_silence_ends: ffmpeg runs and its stderr is filtered for the
\* silence_end values.  Its exit status is not read.  Then
\* print_expected_tracks is entered.
FetchSilenceEnds ==
    /\ mode = "split" /\ pc = "detect"
    /\ \E rc \in ExitCodes, ends \in EventLists :
         /\ calls' = Append(calls, Call("ffmpeg", "silencedetect", "", 0, "none", 0, rc))
         /\ silence_ends' = ends
    /\ old_silence_end' = 0
    /\ number' = 1
    /\ pc' = "preview"
    /\ UNCHANGED <<mode, args, status, silence_starts, duration, start, end,
                   segments, stdout, files>>

\* Popen raises FileNotFoundError when ffmpeg is not installed: the script
\* ends with a traceback and status 1.
FetchSilenceEndsMissing ==
    /\ mode = "split" /\ pc = "detect"
    /\ pc' = "crashed"
    /\ status' = 1
    /\ UNCHANGED <<mode, args, silence_ends, silence_starts, duration, start, end,
                   old_silence_end, number, segments, stdout, calls, files>>

\* One iteration of the loop of print_expected_tracks.
PrintExpectedTracksStep ==
    /\ mode = "split" /\ pc = "preview"
    /\ number <= Len(silence_ends)
    /\ LET silence_end == silence_ends[number] IN
         /\ stdout' = Append(stdout, TrackLine(number, silence_end, old_silence_end))
         /\ segments' = Append(segments,
                [index |-> number, start_seconds |-> old_silence_end,
                 end_seconds |-> silence_end])
         /\ old_silence_end' = NextOldSilenceEnd(silence_end, old_silence_end)
    /\ number' = number + 1
    /\ UNCHANGED <<mode, args, pc, status, silence_ends, silence_starts, duration,
                   start, end, calls, files>>

\* print_expected_tracks returns; with --execute write_tracks is entered,
\* without it the script ends.
PrintExpectedTracksReturn ==
    /\ mode = "split" /\ pc = "preview"
    /\ number > Len(silence_ends)
    /\ IF ShouldExecute(args)
       THEN /\ pc' = "write"
            /\ old_silence_end' = 0
            /\ number' = 1
            /\ UNCHANGED status
       ELSE /\ pc' = "done"
            /\ status' = 0
            /\ UNCHANGED <<old_silence_end, number>>
    /\ UNCHANGED <<mode, args, silence_ends, silence_starts, duration, start, end,
                   segments, stdout, calls, files>>

\* One iteration of the loop of write_tracks: sox runs to its end, its exit
\* status is not read.
WriteTracksStep ==
    /\ mode = "split" /\ pc = "write"
    /\ number <= Len(silence_ends)
    /\ LET silence_end == silence_ends[number] - args.offset
           track == TrackName(number)
       IN  /\ stdout' = Append(stdout, Line("writing", "Writing " \o track))
           /\ \E rc \in ExitCodes :
                /\ calls' = Append(calls,
                      SoxTrackArgs(track, old_silence_end, silence_end, number,
                                   Len(silence_ends), rc))
                /\ files' = FilesAfter(files, track, rc)
           /\ old_silence_end' = silence_end
    /\ number' = number + 1
    /\ UNCHANGED <<mode, args, pc, status, silence_ends, silence_starts, duration,
                   start, end, segments>>

\* subprocess.run raises FileNotFoundError when sox is not installed.
WriteTracksMissing ==
    /\ mode = "split" /\ pc = "write"
    /\ number <= Len(silence_ends)
    /\ stdout' = Append(stdout, Line("writing", "Writing " \o TrackName(number)))
    /\ pc' = "crashed"
    /\ status' = 1
    /\ UNCHANGED <<mode, args, silence_ends, silence_starts, duration, start, end,
                   old_silence_end, number, segments, calls, files>>

WriteTracksReturn ==
    /\ mode = "split" /\ pc = "write"
    /\ number > Len(silence_ends)
    /\ pc' = "done"
    /\ status' = 0
    /\ UNCHANGED <<mode, args, silence_ends, silence_starts, duration, start, end,
                   old_silence_end, number, segments, stdout, calls, files>>

-----------------------------------------------------------------------------
(* src/trim_silence.py *)

TrimArgsError(a) ==
    IF ~a.file_exists THEN "file_missing"
    ELSE IF a.noise >= 0 THEN "bad_noise"
    ELSE "none"

\* Mutant of StartTime: the last silence end instead of the first.
StartTime_Last(ends) == IF ends /= <<>> THEN ends[Len(ends)] ELSE 0

\* start_time = silence_ends[0] if silence_ends else 0.0
StartTime(ends) == IF ends /= <<>> THEN ends[1] ELSE 0

\* end_time = silence_starts[-1] if silence_starts else duration
EndTime(starts, dur) == IF starts /= <<>> THEN starts[Len(starts)] ELSE dur

\* Mutant of TrimStart: no clamp at 0.
TrimStart_NoClamp(start_time, offset) == start_time - offset

\* start = max(0.0, start - args.offset)
TrimStart(start_time, offset) == Max(0, start_time - offset)

\* Mutant of TrimEnd: the offset is subtracted at the end as it is at the start.
TrimEnd_MinusOffset(dur, end_time, offset) == Min(dur, end_time - offset)

\* end = min(duration, end + args.offset)
TrimEnd(dur, end_time, offset) == Min(dur, end_time + offset)

\* if end <= start:
RangeIsEmpty(s, e) == e <= s

\* Path(args.file).with_stem(stem + "_trimmed").with_suffix(".wav")
OutputPath == Stem \o "_trimmed" \o ".wav"

\* Path(file).with_suffix(".normalized.wav") of the output path
TempFile == Stem \o "_trimmed" \o ".normalized.wav"

TrimValidate ==
    /\ mode = "trim" /\ pc = "start"
    /\ LET err == TrimArgsError(args) IN
       IF err /= "none"
       THEN /\ stdout' = Append(stdout, Line(err, ""))
            /\ pc' = "exit"
            /\ status' = 1
       ELSE /\ pc' = "detect"
            /\ UNCHANGED <<stdout, status>>
    /\ UNCHANGED <<mode, args, silence_ends, silence_starts, duration, start, end,
                   old_silence_end, number, segments, calls, files>>

\* detect_trim_points: ffmpeg runs to its end, its stderr is scanned for the
\* duration and the silence events; its exit status is not read.
DetectTrimPoints ==
    /\ mode = "trim" /\ pc = "detect"
    /\ \E rc \in ExitCodes, starts \in EventLists, ends \in EventLists,
          dur \in Durations :
         /\ calls' = Append(calls, Call("ffmpeg", "silencedetect", "", 0, "none", 0, rc))
         /\ silence_starts' = starts
         /\ silence_ends' = ends
         /\ duration' = dur
         /\ start' = StartTime(ends)
         /\ end' = EndTime(starts, dur)
    /\ pc' = "plan"
    /\ UNCHANGED <<mode, args, status, old_silence_end, number, segments, stdout,
                   files>>

\* subprocess.run raises FileNotFoundError when ffmpeg is not installed.
DetectTrimPointsMissing ==
    /\ mode = "trim" /\ pc = "detect"
    /\ pc' = "crashed"
    /\ status' = 1
    /\ UNCHANGED <<mode, args, silence_ends, silence_starts, duration, start, end,
                   old_silence_end, number, segments, stdout, calls, files>>

\* The offset is applied to both ends, and an empty range ends the script.
ComputeTrimRange ==
    /\ mode = "trim" /\ pc = "plan"
    /\ start' = TrimStart(start, args.offset)
    /\ end' = TrimEnd(duration, end, args.offset)
    /\ IF RangeIsEmpty(start', end')
       THEN /\ stdout' = Append(stdout, Line("bad_range", ""))
            /\ pc' = "exit"
            /\ status' = 1
       ELSE /\ pc' = "report"
            /\ UNCHANGED <<stdout, status>>
    /\ UNCHANGED <<mode, args, silence_ends, silence_starts, duration,
                   old_silence_end, number, segments, calls, files>>

\* The two lines of the preview.
PrintDurations ==
    /\ mode = "trim" /\ pc = "report"
    /\ LET trimmed_duration == round_away_from_zero(end - start)
           original_duration == round_away_from_zero(duration)
       IN  stdout' = stdout \o
             << Line("original_duration",
                     "Original duration: " \o IntStr(original_duration) \o
                     " seconds (" \o format_seconds_trim(original_duration) \o ")"),
                Line("expected_duration",
                     "Expected trimmed duration: " \o IntStr(trimmed_duration) \o
                     " seconds (" \o format_seconds_trim(trimmed_duration) \o ")") >>
    /\ pc' = "branch"
    /\ UNCHANGED <<mode, args, status, silence_ends, silence_starts, duration,
                   start, end, old_silence_end, number, segments, calls, files>>

\* else: the notes of a run without --execute.
PreviewOnly ==
    /\ mode = "trim" /\ pc = "branch"
    /\ ~ShouldExecute(args)
    /\ stdout' = stdout \o
         (IF args.normalize
          THEN << Line("preview_only", ""), Line("normalize_no_effect", "") >>
          ELSE << Line("preview_only", "") >>)
    /\ pc' = "done"
    /\ status' = 0
    /\ UNCHANGED <<mode, args, silence_ends, silence_starts, duration, start, end,
                   old_silence_end, number, segments, calls, files>>

\* trim_audio: sox runs to its end, its exit status is not read.
TrimAudio ==
    /\ mode = "trim" /\ pc = "branch"
    /\ ShouldExecute(args)
    /\ stdout' = Append(stdout, Line("trimming", "Trimming to: " \o OutputPath))
    /\ \E rc \in ExitCodes :
         /\ calls' = Append(calls,
               Call("sox", "trim", OutputPath, start, "len", end - start, rc))
         /\ files' = FilesAfter(files, OutputPath, rc)
    /\ IF args.normalize
       THEN /\ pc' = "normalize"
            /\ UNCHANGED status
       ELSE /\ pc' = "done"
            /\ status' = 0
    /\ UNCHANGED <<mode, args, silence_ends, silence_starts, duration, start, end,
                   old_silence_end, number, segments>>

\* subprocess.run raises FileNotFoundError when sox is not installed.
TrimAudioMissing ==
    /\ mode = "trim" /\ pc = "branch"
    /\ ShouldExecute(args)
    /\ stdout' = Append(stdout, Line("trimming", "Trimming to: " \o OutputPath))
    /\ pc' = "crashed"
    /\ status' = 1
    /\ UNCHANGED <<mode, args, silence_ends, silence_starts, duration, start, end,
                   old_silence_end, number, segments, calls, files>>

\* normalize_audio: sox writes the temporary file, which then replaces the
\* trimmed file.  sox cannot succeed without its input file; Path.replace
\* raises FileNotFoundError when the temporary file was not written.
NormalizeAudio ==
    /\ mode = "trim" /\ pc = "normalize"
    /\ stdout' = Append(stdout, Line("normalizing", "Removing DC offset and normalizing: " \o OutputPath))
    /\ \E rc \in ExitCodes :
         /\ (rc = 0 => OutputPath \in files)
         /\ calls' = Append(calls, Call("sox", "normalize", TempFile, 0, "none", 0, rc))
         /\ IF rc = 0
            THEN /\ files' = (files \ {TempFile}) \cup {OutputPath}
                 /\ pc' = "done"
                 /\ status' = 0
            ELSE /\ files' = files
                 /\ pc' = "crashed"
                 /\ status' = 1
    /\ UNCHANGED <<mode, args, silence_ends, silence_starts, duration, start, end,
                   old_silence_end, number, segments>>

-----------------------------------------------------------------------------
(* The runs *)

ArgsOf(m) ==
    IF m = "split"
    THEN [file_exists : BOOLEAN, noise : Noises, duration : SilenceDurations,
          offset : Offsets, execute : BOOLEAN, normalize : {FALSE}]
    ELSE [file_exists : BOOLEAN, noise : Noises, duration : {0},
          offset : Offsets, execute : BOOLEAN, normalize : BOOLEAN]

Init ==
    /\ mode \in {"split", "trim"}
    /\ args \in ArgsOf(mode)
    /\ pc = "start"
    /\ status = -1
    /\ silence_ends = <<>>
    /\ silence_starts = <<>>
    /\ duration = 0
    /\ start = 0
    /\ end = 0
    /\ old_silence_end = 0
    /\ number = 1
    /\ segments = <<>>
    /\ stdout = <<>>
    /\ calls = <<>>
    /\ files = {}

Next ==
    \/ SplitValidate
    \/ FetchSilenceEnds
    \/ FetchSilenceEndsMissing
    \/ PrintExpectedTracksStep
    \/ PrintExpectedTracksReturn
    \/ WriteTracksStep
    \/ WriteTracksMissing
    \/ WriteTracksReturn
    \/ TrimValidate
    \/ DetectTrimPoints
    \/ DetectTrimPointsMissing
    \/ ComputeTrimRange
    \/ PrintDurations
    \/ PreviewOnly
    \/ TrimAudio
    \/ TrimAudioMissing
    \/ NormalizeAudio

Spec == Init /\ [][Next]_vars

Terminated == pc \in {"done", "exit", "crashed"}

TypeOK ==
    /\ mode \in {"split", "trim"}
    /\ pc \in {"start", "detect", "preview", "write", "plan", "report", "branch",
               "normalize", "done", "exit", "crashed"}
    /\ status \in {-1, 0, 1}
    /\ (status = -1) <=> ~Terminated

-----------------------------------------------------------------------------
(* Properties *)

\* The decoder was spawned and returned.
DetectionDone == FfmpegCalls /= <<>>

\* Every subprocess spawned so far ended with status 0.
NoFailedCall == \A i \in 1..Len(calls) : calls[i].rc = 0

\* Trim mode: lines 153-154 have run.
PlanComputed ==
    mode = "trim" /\ DetectionDone /\ pc \notin {"start", "detect", "plan"}

RECURSIVE SumDurations(_)
SumDurations(segs) ==
    IF segs = <<>> THEN 0
    ELSE (Head(segs).end_seconds - Head(segs).start_seconds) + SumDurations(Tail(segs))

\* The lines of one kind printed so far.
LinesOfKind(kind) == SelectSeq(stdout, LAMBDA l : l.kind = kind)

\* The preview of the expected durations is on stdout: every track line in
\* track-split mode, the expected trimmed duration in trim mode.
PreviewComplete ==
    IF mode = "split"
    THEN pc \in {"write", "done", "crashed"}
         /\ Len(LinesOfKind("track")) = Len(silence_ends)
    ELSE Len(LinesOfKind("expected_duration")) = 1

\* The command line is invalid: the file is missing or a numeric argument
\* has the wrong sign.
InvalidInput ==
    \/ ~args.file_exists
    \/ args.noise >= 0
    \/ (mode = "split" /\ args.duration <= 0)

\* C1: track-split planning over silence ends 0 <= t1 < ... < tn makes exactly
\* n segments, segment k covers [t_(k-1), t_k) with t_0 = 0, and the segment
\* durations sum to t_n.
C1_SplitPlanSegments ==
    mode = "split" =>
      LET n == Len(silence_ends) IN
        /\ Len(segments) <= n
        /\ \A k \in 1..Len(segments) :
             /\ segments[k].index = k
             /\ segments[k].start_seconds = (IF k = 1 THEN 0 ELSE silence_ends[k - 1])
             /\ segments[k].end_seconds = silence_ends[k]
        /\ (pc \in {"write", "done"} =>
              /\ Len(segments) = n
              /\ (n >= 1 => SumDurations(segments) = silence_ends[n]))

C1_Witness ==
    mode = "split" /\ pc = "done" /\ Len(segments) >= 2 /\ silence_ends[1] > 0

\* C2: trim mode with at least one silence end and one silence start:
\* start = max(0, first silence end - offset) and
\* end = min(duration, last silence start + offset).
C2_TrimRange ==
    (PlanComputed /\ silence_ends /= <<>> /\ silence_starts /= <<>>) =>
      /\ start = Max(0, silence_ends[1] - args.offset)
      /\ end = Min(duration, silence_starts[Len(silence_starts)] + args.offset)

C2_Witness ==
    /\ PlanComputed /\ pc = "done"
    /\ Len(silence_ends) >= 2 /\ Len(silence_starts) >= 2
    /\ start > 0 /\ end < duration

\* The case of C3: silence_end = [2.0], silence_start = [10.0],
\* duration = 12.0, offset = 0.4.
C3_Case ==
    /\ PlanComputed
    /\ silence_ends = <<20>> /\ silence_starts = <<100>>
    /\ duration = 120 /\ args.offset = 4

\* C3 as claimed: in that case start = 1.6 and end = 9.6 (stated for the
\* runs in which no subprocess failed).
C3_Original == (C3_Case /\ NoFailedCall) => (start = 16 /\ end = 96)

\* C3 as amended: in that case start = 1.6 and end = 10.4, the last silence
\* start plus the offset.
C3_TrimExample == C3_Case => (start = 16 /\ end = 104)

C3_Witness == C3_Case /\ pc = "done"

\* C4 as claimed: for every offset, without a silence end start is 0, and
\* without a silence start end is the media duration (stated for the runs
\* in which no subprocess failed and a duration was detected).
C4_Original ==
    (PlanComputed /\ NoFailedCall /\ duration > 0) =>
      /\ (silence_ends = <<>> => start = 0)
      /\ (silence_starts = <<>> => end = duration)

\* C4 as amended: that holds for every offset >= 0; with a negative offset
\* start is -offset without a silence end, and end is duration + offset
\* without a silence start.
C4_TrimFallback ==
    PlanComputed =>
      /\ (silence_ends = <<>> =>
            start = (IF args.offset >= 0 THEN 0 ELSE -args.offset))
      /\ (silence_starts = <<>> =>
            end = (IF args.offset >= 0 THEN duration ELSE duration + args.offset))

C4_Witness ==
    /\ PlanComputed /\ pc = "done"
    /\ silence_ends = <<>> /\ silence_starts = <<>>
    /\ args.offset > 0 /\ duration > 0

\* C5: a run that hits an error condition ends with a non-zero status and
\* has never invoked the editor; on invalid input no subprocess at all was
\* spawned.
C5_ErrorsExitEarly ==
    /\ (pc /= "start" /\ InvalidInput) =>
          (pc = "exit" /\ status = 1 /\ calls = <<>>)
    /\ (PlanComputed /\ end <= start) =>
          (pc = "exit" /\ status = 1 /\ SoxCalls = <<>>)
    /\ (\E i \in 1..Len(stdout) :
            stdout[i].kind \in {"file_missing", "bad_noise", "bad_duration", "bad_range"}) =>
          (pc = "exit" /\ status = 1 /\ SoxCalls = <<>>)

C5_Witness ==
    /\ mode = "trim" /\ pc = "exit" /\ args.execute
    /\ DetectionDone /\ end <= start

\* The part of C6 that holds as claimed: the editor is invoked only with
\* --execute, and only after the preview.
C6_EditorAfterPreview ==
    SoxCalls /= <<>> => (args.execute /\ PreviewComplete)

\* C6 as claimed: every run that reaches planning prints the preview (stated
\* for the runs in which no subprocess failed, a duration was detected and
\* the offset is the default).
C6_Original ==
    /\ C6_EditorAfterPreview
    /\ (Terminated /\ DetectionDone /\ NoFailedCall /\ duration > 0
          /\ args.offset = OFFSET_DEFAULT) => PreviewComplete

\* C6 as amended: every run that reaches planning prints the preview, with
\* or without --execute, except a trim run whose range is empty (end <=
\* start), which exits before the preview; the editor is invoked only with
\* --execute and only after the preview.
C6_PreviewBeforeExecution ==
    /\ C6_EditorAfterPreview
    /\ (Terminated /\ DetectionDone /\ ~(mode = "trim" /\ end <= start)) =>
          PreviewComplete

C6_Witness ==
    /\ pc = "done" /\ mode = "trim" /\ Len(SoxCalls) = 2 /\ PreviewComplete

\* C7: track-split with --execute and n >= 1 silence ends: the editor is
\* invoked n times in index order, invocation k writes NN.wav for k, every
\* invocation k < n has the absolute end bound t_k - offset, and the last
\* has a start position and no end bound.
C7_WriteTracksInvocations ==
    mode = "split" =>
      LET sox == SoxCalls
          n == Len(silence_ends)
      IN  /\ Len(sox) <= n
          /\ \A k \in 1..Len(sox) :
               /\ sox[k].op = "trim"
               /\ (k < 10 => sox[k].out = "0" \o Digit[k + 1] \o ".wav")
               /\ (k < n => sox[k].bound = "abs"
                            /\ sox[k].value = silence_ends[k] - args.offset)
               /\ (k = n => sox[k].bound = "none")
          /\ (pc = "done" /\ args.execute) => Len(sox) = n
          /\ (pc = "done" /\ ~args.execute) => Len(sox) = 0

C7_Witness ==
    /\ mode = "split" /\ pc = "done" /\ args.execute
    /\ Len(silence_ends) >= 2 /\ Len(SoxCalls) = Len(silence_ends)

\* C8: track-split with no silence end: the plan is empty, the editor is
\* not invoked, no track is written, the run does not crash, and the
\* program reports that no tracks were detected.
C8_EmptyPlanReported ==
    (mode = "split" /\ Terminated /\ DetectionDone /\ silence_ends = <<>>) =>
      /\ segments = <<>>
      /\ SoxCalls = <<>>
      /\ files = {}
      /\ pc = "done"
      /\ stdout /= <<>>

\* C9: a failed subprocess is a failure of the run: nothing follows a failed
\* decoder or editor invocation, and the run does not end with success.
C9_FailureSurfaced ==
    \A i \in 1..Len(calls) :
      calls[i].rc /= 0 =>
        /\ i = Len(calls)
        /\ pc \in {"exit", "crashed"}
        /\ status /= 0

\* C10: the ranges track-split passes to the editor keep the Segment
\* invariant: ordered by index, each starting where the one before ends,
\* every start >= 0 and every explicit end > start (stated for the runs in
\* which no subprocess failed and the first silence ends after 0).
C10_SegmentInvariant ==
    (mode = "split" /\ NoFailedCall /\ silence_ends /= <<>> /\ silence_ends[1] > 0) =>
      LET sox == SoxCalls IN
        \A k \in 1..Len(sox) :
          /\ sox[k].out = TrackName(k)
          /\ sox[k].pos >= 0
          /\ (sox[k].bound = "abs" => sox[k].value > sox[k].pos)
          /\ (k > 1 => sox[k - 1].bound = "abs" /\ sox[k].pos = sox[k - 1].value)

=============================================================================
